---- MODULE Spec2Model ----
(***************************************************************************)
(* MediaSorter (mediasorter.py): the metadata extractor, the template      *)
(* formatter, the directory walker with its move planner, and the command  *)
(* queue.                                                                  *)
(*                                                                         *)
(* Strings are sequences of items.  An item is either a word (a run of     *)
(* word characters, written as one TLA+ string) or a single separator      *)
(* character.  A path is a sequence of names, a name is a string.          *)
(*                                                                         *)
(* Of the start-up code only the validation of the template is modelled    *)
(* (SpecFormat); Spec and SpecRerun begin at the import pass, with the     *)
(* options already parsed.  The queue holds commands as records [cmd,      *)
(* paths] in place of the formatted command line, and a source "dir/*" of  *)
(* a queued move stands for the entries of dir at the time the move runs.  *)
(***************************************************************************)
EXTENDS Integers, Sequences, FiniteSets, TLC

(***************************************************************************)
(* Bounds of the model.                                                    *)
(***************************************************************************)
MaxFiles == 3
MaxQueue == 3

MaxLog == 4
MaxFormatLen == 4

(***************************************************************************)
(* Generic helpers on sequences.                                           *)
(***************************************************************************)
Range(s) == {s[i] : i \in 1..Len(s)}

Last(s) == s[Len(s)]

Front(s) == SubSeq(s, 1, Len(s) - 1)

Contains(s, x) == \E i \in 1..Len(s) : s[i] = x

RECURSIVE RemoveFirst(_, _)
RemoveFirst(s, x) ==
  IF s = <<>> THEN <<>>
  ELSE IF Head(s) = x THEN Tail(s) ELSE <<Head(s)>> \o RemoveFirst(Tail(s), x)

RECURSIVE SetToSeq(_)
SetToSeq(S) ==
  IF S = {} THEN <<>>
  ELSE LET x == CHOOSE y \in S : TRUE IN <<x>> \o SetToSeq(S \ {x})

RECURSIVE Perms(_)
Perms(S) ==
  IF S = {} THEN {<<>>}
  ELSE UNION {{<<x>> \o p : p \in Perms(S \ {x})} : x \in S}

(***************************************************************************)
(* Characters and words.  [_\W] of the regular expressions is a separator  *)
(* item; the sentinel '#' left by match_remove is one of them.             *)
(***************************************************************************)
SepItems == {".", " ", "-", "_", "(", ")", "[", "]", "{", "}", "#"}

IsSep(x) == x \in SepItems

IsWord(x) == x \notin SepItems

\* str.lower() on the words of the model's vocabulary
Lower(w) ==
  CASE w = "Matrix" -> "matrix"
    [] w = "Thumbs" -> "thumbs"
    [] w = "Sample" -> "sample"
    [] w = "Divx" -> "divx"
    [] w = "Mkv" -> "mkv"
    [] w = "Etc" -> "etc"
    [] w = "DVD" -> "dvd"
    [] w = "Other" -> "other"
    [] w = "VIDEO_TS" -> "video_ts"
    [] OTHER -> w

LowerStr(s) == [i \in 1..Len(s) |-> Lower(s[i])]

\* match_correctcase, [A-Z][a-z]: the number of such pairs in one word
CasePairs(w) ==
  CASE w \in {"Matrix", "Thumbs", "Sample", "Divx", "Mkv", "Etc", "Other"} -> 1
    [] OTHER -> 0

(***************************************************************************)
(* Configuration tables.                                                   *)
(***************************************************************************)
format_keys ==
  {"mediatype", "filetype", "ext", "video_codec", "sound_codec", "year",
   "rip", "resolution", "part", "title", "lang", "torrent", "filename",
   "mediaroot", "discarded"}

video_type_keys ==
  {"mkv", "divx", "avi", "mpg", "mp4", "m4v", "iso", "vob", "img",
   "VIDEO_TS", "wmv", "ogm"}

video_types(e) ==
  CASE e = "mkv" -> <<"Mkv", "-", "Etc">>
    [] e \in {"divx", "avi", "mpg"} -> <<"Divx">>
    [] e \in {"mp4", "m4v"} -> <<"h264">>
    [] e \in {"iso", "vob", "img", "VIDEO_TS"} -> <<"DVD">>
    [] OTHER -> <<"Other">>

meta_dir_name == <<"metadata">>

subfiles_ext == {"srt", "sub", "idx"}

find_subtitles == {"mkv", "divx", "avi", "mp4", "m4v"}

default_format ==
  <<"$filetype", "/", "$title", " ", "(", "$year", ")", "/", "$filename">>

\* fnmatch patterns: [kind, text]; kind "suffix" is '*text', "prefix" is
\* 'text*', "exact" is 'text'
default_deletefiles ==
  << [kind |-> "suffix", text |-> <<"fastresume">>],
     [kind |-> "suffix", text |-> <<".", "sfv">>],
     [kind |-> "prefix", text |-> <<".", "_">>],
     [kind |-> "exact", text |-> <<"Thumbs", ".", "db">>] >>

default_keepfiles ==
  << [kind |-> "suffix", text |-> <<".", "bup">>],
     [kind |-> "suffix", text |-> <<".", "ifo">>],
     [kind |-> "exact", text |-> <<".", "ds", "_", "store">>] >>

(***************************************************************************)
(* The token rules.  A rule finds its first match in a string and gives    *)
(* the span <<first, last>> of the 'val' group, or <<0, 0>>.               *)
(***************************************************************************)
ExtWords ==
  {"mkv", "divx", "avi", "mpg", "m4v", "mp4", "iso", "vob", "video_ts",
   "wmv", "ogm"}

PartWords == {"cd1", "cd2", "part1", "part2", "ep1", "ep2"}

PartAltWords == {"a", "b", "1", "2", "01", "02"}

VideoWords == {"x264", "h264", "xvid", "xvidhd", "divx", "mpeg2", "avc"}

YearWords == {"1999", "2003"}

SoundWords == {"mp3", "ac3", "dts", "dd", "aac"}

RipWords ==
  {"dvdrip", "dvdscr", "dvd", "screener", "scr", "brrip", "bdrip", "bluray",
   "hdtv", "hdtvrip", "hdrip", "vhsrip", "vhs", "vod", "vodrip"}

ResolutionWords == {"720p", "1080p", "720", "1080", "ws", "hd"}

TorrentWords == {"demonoid", "kat", "isohunt", "mininova"}

LangWords ==
  {"english", "eng", "en", "swedish", "sv", "swe", "french", "korean", "nl",
   "hindi"}

NoSpan == <<0, 0>>

\* [_\W](?P<val>word)($|[_\W]) : a word of the class after a separator
BoundedSpan(s, words, ci) ==
  LET ok(i) == /\ i > 1
               /\ IsSep(s[i - 1])
               /\ (IF ci THEN Lower(s[i]) ELSE s[i]) \in words
               /\ (i = Len(s) \/ IsSep(s[i + 1]))
      hits == {i \in 1..Len(s) : ok(i)}
  IN IF hits = {} THEN NoSpan
     ELSE LET i == CHOOSE j \in hits : \A k \in hits : j <= k IN <<i, i>>

\* match_part: (^|[_\W])(?P<val>...)($|[_\W]) : also at the start
match_part(s) ==
  LET ok(i) == /\ (i = 1 \/ IsSep(s[i - 1]))
               /\ Lower(s[i]) \in PartWords
               /\ (i = Len(s) \/ IsSep(s[i + 1]))
      hits == {i \in 1..Len(s) : ok(i)}
  IN IF hits = {} THEN NoSpan
     ELSE LET i == CHOOSE j \in hits : \A k \in hits : j <= k IN <<i, i>>

\* match_part_alt: [_\W](?P<val>a|b|\d{1,2})(.#|$)
match_part_alt(s) ==
  LET ok(i) == /\ i > 1
               /\ IsSep(s[i - 1])
               /\ Lower(s[i]) \in PartAltWords
               /\ \/ i = Len(s)
                  \/ (i + 2 <= Len(s) /\ IsSep(s[i + 1]) /\ s[i + 2] = "#")
      hits == {i \in 1..Len(s) : ok(i)}
  IN IF hits = {} THEN NoSpan
     ELSE LET i == CHOOSE j \in hits : \A k \in hits : j <= k IN <<i, i>>

\* match_extension: (^|[_\W])(?P<val>ext)$ : the last item only
match_extension(s) ==
  IF /\ s # <<>>
     /\ Lower(Last(s)) \in ExtWords
     /\ (Len(s) = 1 \/ IsSep(s[Len(s) - 1]))
  THEN <<Len(s), Len(s)>>
  ELSE NoSpan

match_video(s) == BoundedSpan(s, VideoWords, TRUE)

match_year(s) == BoundedSpan(s, YearWords, FALSE)

match_sound(s) == BoundedSpan(s, SoundWords, TRUE)

match_rip(s) == BoundedSpan(s, RipWords, TRUE)

match_resolution(s) == BoundedSpan(s, ResolutionWords, TRUE)

match_lang(s) == BoundedSpan(s, LangWords, TRUE)

\* words of 2 to 4 characters, \w{2,4}
ShortWords ==
  ExtWords \cup SoundWords \cup YearWords
    \cup {"cd1", "cd2", "ep1", "ep2", "neo", "nfo", "sfv", "ifo", "srt",
          "sub", "idx", "bup", "db", "dvd", "etc", "vts", "info"}

\* match_torrent: [_\W]*(?P<val>name([_\W]\w{2,4})?)[_\W]* : no boundary
\* is required before the name; the optional tail takes a following word of
\* 2 to 4 characters
match_torrent(s) ==
  LET hits == {i \in 1..Len(s) : Lower(s[i]) \in TorrentWords}
  IN IF hits = {} THEN NoSpan
     ELSE LET i == CHOOSE j \in hits : \A k \in hits : j <= k
          IN IF i + 2 <= Len(s) /\ IsSep(s[i + 1]) /\ IsWord(s[i + 2])
                /\ Lower(s[i + 2]) \in ShortWords
             THEN <<i, i + 2>> ELSE <<i, i>>

\* match_title: ^[_\W]*(?P<val>.{3,}?[])]?)([_\W]*#|[_\W]*$) : from the
\* first word up to the last word before the next '#' (or the end), with a
\* closing bracket that follows directly.  Words have 3 or more characters.
match_title(s) ==
  LET words == {i \in 1..Len(s) : IsWord(s[i])}
  IN IF words = {} THEN NoSpan
     ELSE LET first == CHOOSE j \in words : \A k \in words : j <= k
              marks == {i \in first..Len(s) : s[i] = "#"}
              stop == IF marks = {} THEN Len(s) + 1
                      ELSE CHOOSE j \in marks : \A k \in marks : j <= k
              inner == {i \in words : i < stop}
              last == CHOOSE j \in inner : \A k \in inner : j >= k
              close == IF last < Len(s) /\ s[last + 1] \in {"]", ")"}
                       THEN last + 1 ELSE last
          IN <<first, close>>

(***************************************************************************)
(* match_remove: record the first match at the front of the field's list   *)
(* unless the value is already there, and replace the match by '#'.        *)
(***************************************************************************)
InsertFront(list, val) == IF Contains(list, val) THEN list ELSE <<val>> \o list

match_remove(span, s, list) ==
  IF span = NoSpan THEN [str |-> s, list |-> list]
  ELSE [str |-> SubSeq(s, 1, span[1] - 1) \o <<"#">>
                  \o SubSeq(s, span[2] + 1, Len(s)),
        list |-> InsertFront(list, SubSeq(s, span[1], span[2]))]

(***************************************************************************)
(* The clean-up expressions.  match_clean1 keeps a dot between ' d' and    *)
(* 'd ' (single digits); the model's words have no such digits.            *)
(***************************************************************************)
RECURSIVE SkipRun(_, _)
SkipRun(s, set) ==
  IF s # <<>> /\ Head(s) \in set THEN SkipRun(Tail(s), set) ELSE s

RECURSIVE CollapseRuns(_, _, _)
CollapseRuns(s, set, repl) ==
  IF s = <<>> THEN <<>>
  ELSE IF Head(s) \in set
       THEN repl \o CollapseRuns(SkipRun(s, set), set, repl)
       ELSE <<Head(s)>> \o CollapseRuns(Tail(s), set, repl)

\* match_clean3, ' *-+ *': a run of spaces and hyphens that has a hyphen
RECURSIVE CollapseDash(_, _)
CollapseDash(s, repl) ==
  IF s = <<>> THEN <<>>
  ELSE IF Head(s) \in {" ", "-"}
       THEN LET rest == SkipRun(s, {" ", "-"})
                run == SubSeq(s, 1, Len(s) - Len(rest))
            IN (IF Contains(run, "-") THEN repl ELSE run)
                 \o CollapseDash(rest, repl)
       ELSE <<Head(s)>> \o CollapseDash(Tail(s), repl)

RECURSIVE StripLeft(_)
StripLeft(s) == IF s # <<>> /\ Head(s) = " " THEN StripLeft(Tail(s)) ELSE s

RECURSIVE StripRight(_)
StripRight(s) ==
  IF s # <<>> /\ Last(s) = " " THEN StripRight(Front(s)) ELSE s

strip(s) == StripRight(StripLeft(s))

match_clean1(s) == CollapseRuns(s, {"."}, <<" ">>)

match_clean2(s) == CollapseRuns(s, {"_", "#", " "}, <<" ">>)

match_clean3(s, repl) == CollapseDash(s, repl)

CleanTitle(t) ==
  strip(match_clean3(match_clean2(match_clean1(t)), <<" ", "-", " ">>))

CleanPart(t) == strip(match_clean3(match_clean2(match_clean1(t)), <<" ">>))

RECURSIVE CleanTitles(_, _)
CleanTitles(titles, acc) ==
  IF titles = <<>> THEN acc
  ELSE LET t == CleanTitle(Head(titles))
       IN CleanTitles(Tail(titles),
                      IF Len(t) > 0 /\ ~Contains(acc, t)
                      THEN Append(acc, t) ELSE acc)

\* match_split.split: '[. _#]{2,}|[]()[{}]'
RECURSIVE SplitParts(_, _)
SplitParts(s, cur) ==
  IF s = <<>> THEN <<cur>>
  ELSE IF Head(s) \in {"[", "]", "(", ")", "{", "}"}
       THEN <<cur>> \o SplitParts(Tail(s), <<>>)
       ELSE IF Head(s) \in {".", " ", "_", "#"}
            THEN LET rest == SkipRun(s, {".", " ", "_", "#"})
                     n == Len(s) - Len(rest)
                 IN IF n >= 2 THEN <<cur>> \o SplitParts(rest, <<>>)
                    ELSE SplitParts(Tail(s), Append(cur, Head(s)))
            ELSE SplitParts(Tail(s), Append(cur, Head(s)))

RECURSIVE AddDiscarded(_, _)
AddDiscarded(parts, acc) ==
  IF parts = <<>> THEN acc
  ELSE LET p == CleanPart(Head(parts))
       IN AddDiscarded(Tail(parts),
                       IF Len(p) > 0 /\ ~Contains(acc, p)
                       THEN Append(acc, p) ELSE acc)

(***************************************************************************)
(* cmp_titles and list.sort(cmp=cmp_titles): a stable sort, best first.    *)
(***************************************************************************)
RECURSIVE SumCasePairs(_)
SumCasePairs(t) ==
  IF t = <<>> THEN 0 ELSE CasePairs(Head(t)) + SumCasePairs(Tail(t))

Spaces(t) == Cardinality({i \in 1..Len(t) : t[i] = " "})

\* len(x) - len(match_correctcase.sub("", x)): the characters taken out,
\* two for every pair; plus the spaces
TitleScore(t) == 2 * SumCasePairs(t) + Spaces(t)

cmp_titles(x, y) == TitleScore(y) - TitleScore(x)

RECURSIVE InsertSorted(_, _)
InsertSorted(sorted, t) ==
  IF sorted = <<>> THEN <<t>>
  ELSE IF cmp_titles(Head(sorted), t) > 0
       THEN <<t>> \o sorted
       ELSE <<Head(sorted)>> \o InsertSorted(Tail(sorted), t)

RECURSIVE SortTitles(_, _)
SortTitles(titles, acc) ==
  IF titles = <<>> THEN acc
  ELSE SortTitles(Tail(titles), InsertSorted(acc, Head(titles)))

(***************************************************************************)
(* analyze_video_file, first half: the rules on every component.           *)
(***************************************************************************)
EmptyMetadata == [k \in format_keys |-> <<>>]

\* one "str = match_remove(rule, str, metadata, key)"; st is [str, md]
ExtractStep(st, span, key) ==
  LET r == match_remove(span, st.str, st.md[key])
  IN [str |-> r.str, md |-> [st.md EXCEPT ![key] = r.list]]

rule_ext(st) == ExtractStep(st, match_extension(st.str), "ext")

rule_part(st) == ExtractStep(st, match_part(st.str), "part")

rule_part_alt(st) == ExtractStep(st, match_part_alt(st.str), "part")

rule_video(st) == ExtractStep(st, match_video(st.str), "video_codec")

rule_year(st) == ExtractStep(st, match_year(st.str), "year")

rule_sound(st) == ExtractStep(st, match_sound(st.str), "sound_codec")

rule_rip(st) == ExtractStep(st, match_rip(st.str), "rip")

rule_resolution(st) == ExtractStep(st, match_resolution(st.str), "resolution")

rule_torrent(st) == ExtractStep(st, match_torrent(st.str), "torrent")

rule_title(st) == ExtractStep(st, match_title(st.str), "title")

\* the language rule is called without a key: nothing is recorded; then the
\* titles are cleaned and what is left of the string is discarded
ExtractRest(st) ==
  LET r == match_remove(match_lang(st.str), st.str, <<>>)
  IN [st.md EXCEPT !["title"] = CleanTitles(@, <<>>),
                   !["discarded"] = AddDiscarded(SplitParts(r.str, <<>>), @)]

ExtractComponent(md, comp) ==
  ExtractRest(rule_title(rule_torrent(rule_resolution(rule_rip(rule_sound(
    rule_year(rule_video(rule_part_alt(rule_part(rule_ext(
      [str |-> comp, md |-> md])))))))))))

RECURSIVE ExtractAll(_, _)
ExtractAll(md, comps) ==
  \* DOMAIN md makes TLC evaluate md before the next component
  IF comps = <<>> \/ DOMAIN md = {} THEN md
  ELSE ExtractAll(ExtractComponent(md, Head(comps)), Tail(comps))

SortMetadata(md) ==
  IF Len(md["title"]) > 1
  THEN [md EXCEPT !["title"] = SortTitles(md["title"], <<>>)]
  ELSE md

Extract(components, file) ==
  SortMetadata(ExtractAll(EmptyMetadata, Append(components, file)))

(***************************************************************************)
(* analyze_video_file, second half: the template.  A template is a         *)
(* sequence of items: placeholders, '/', separator characters and words.   *)
(***************************************************************************)
PlaceholderKey ==
  [p \in {"$mediatype", "$filetype", "$ext", "$video_codec", "$sound_codec",
          "$year", "$rip", "$resolution", "$part", "$title", "$lang",
          "$torrent", "$filename", "$mediaroot", "$discarded", "$bogus"} |->
     CASE p = "$mediatype" -> "mediatype"
       [] p = "$filetype" -> "filetype"
       [] p = "$ext" -> "ext"
       [] p = "$video_codec" -> "video_codec"
       [] p = "$sound_codec" -> "sound_codec"
       [] p = "$year" -> "year"
       [] p = "$rip" -> "rip"
       [] p = "$resolution" -> "resolution"
       [] p = "$part" -> "part"
       [] p = "$title" -> "title"
       [] p = "$lang" -> "lang"
       [] p = "$torrent" -> "torrent"
       [] p = "$filename" -> "filename"
       [] p = "$mediaroot" -> "mediaroot"
       [] p = "$discarded" -> "discarded"
       [] OTHER -> "bogus"]

IsPlaceholder(x) == x \in DOMAIN PlaceholderKey

\* chosen_format_keys = [k for k in format_keys if k in args.format]
chosen_format_keys(format) ==
  {k \in format_keys :
     \E i \in 1..Len(format) :
        IsPlaceholder(format[i]) /\ PlaceholderKey[format[i]] = k}

Unfilled == <<"$$">>

\* formatdata; the value of "crash" tells that building it raised
formatdata(format, md, file) ==
  LET chosen == chosen_format_keys(format)
      top(k) == IF Len(md[k]) > 0 THEN md[k][1] ELSE Unfilled
      badtype == /\ "filetype" \in chosen
                 /\ \/ md["ext"] = <<>>
                    \/ Len(md["ext"][1]) # 1
                    \/ md["ext"][1][1] \notin video_type_keys
  IN [crash |-> badtype \/ "mediaroot" \in chosen,
      data |-> [k \in chosen |->
                  IF k = "filetype" /\ ~badtype
                  THEN video_types(md["ext"][1][1])
                  ELSE IF k = "filename" THEN file ELSE top(k)]]

\* args.format.replace(".$ext", os.path.sep + "$ext")
RECURSIVE ReplaceDotExt(_)
ReplaceDotExt(format) ==
  IF Len(format) < 2 THEN format
  ELSE IF format[1] = "." /\ format[2] = "$ext"
       THEN <<"/", "$ext">> \o ReplaceDotExt(SubSeq(format, 3, Len(format)))
       ELSE <<format[1]>> \o ReplaceDotExt(Tail(format))

\* Template.substitute
RECURSIVE substitute(_, _)
substitute(format, data) ==
  IF format = <<>> THEN <<>>
  ELSE (IF IsPlaceholder(Head(format))
        THEN data[PlaceholderKey[Head(format)]]
        ELSE <<Head(format)>>) \o substitute(Tail(format), data)

\* match_unfilled_format_keys: [-._ ]+[{([]? ?\$\$ ?[)}\]]? ; the length of
\* the match that starts at the head of s, or 0
UnfilledMatchLen(s) ==
  LET rest1 == SkipRun(s, {"-", ".", "_", " "})
      n1 == Len(s) - Len(rest1)
      afterOpen(r) == IF r # <<>> /\ Head(r) \in {"{", "(", "["}
                      THEN Tail(r) ELSE r
      afterSpace(r) == IF r # <<>> /\ Head(r) = " " THEN Tail(r) ELSE r
      afterClose(r) == IF r # <<>> /\ Head(r) \in {")", "}", "]"}
                       THEN Tail(r) ELSE r
      rest2 == afterSpace(afterOpen(rest1))
  IN IF n1 >= 1 /\ rest2 # <<>> /\ Head(rest2) = "$$"
     THEN Len(s) - Len(afterClose(afterSpace(Tail(rest2))))
     ELSE 0

\* the run [-._ ]+ is greedy but may give back a trailing space to ' ?'
\* with the same overall match, so one attempt per start suffices
RECURSIVE match_unfilled_format_keys_sub(_)
match_unfilled_format_keys_sub(s) ==
  IF s = <<>> THEN <<>>
  ELSE LET n == UnfilledMatchLen(s)
       IN IF n > 0
          THEN match_unfilled_format_keys_sub(SubSeq(s, n + 1, Len(s)))
          ELSE <<Head(s)>> \o match_unfilled_format_keys_sub(Tail(s))

\* str.split("/")
RECURSIVE SplitSlash(_, _)
SplitSlash(s, cur) ==
  IF s = <<>> THEN <<cur>>
  ELSE IF Head(s) = "/" THEN <<cur>> \o SplitSlash(Tail(s), <<>>)
       ELSE SplitSlash(Tail(s), Append(cur, Head(s)))

\* the result of analyze_video_file: newpath (its segments), newfile, or a
\* crash (an exception leaves the function)
SplitResult(crash, segs) ==
  IF crash \/ Len(segs) < 2
  THEN [crash |-> TRUE, newpath |-> <<>>, newfile |-> <<>>]
  ELSE [crash |-> FALSE, newpath |-> Front(segs), newfile |-> Last(segs)]

Render(format, md, fd) ==
  LET unknown == \E i \in 1..Len(format) :
                    /\ IsPlaceholder(format[i])
                    /\ PlaceholderKey[format[i]] \notin DOMAIN fd.data
      noext == "ext" \in DOMAIN fd.data /\ md["ext"] = <<>>
      isdvd == "ext" \in DOMAIN fd.data /\ md["ext"] # <<>>
                  /\ md["ext"][1] = <<"VIDEO_TS">>
  IN IF fd.crash \/ unknown \/ noext THEN SplitResult(TRUE, <<>>)
     ELSE SplitResult(FALSE,
            SplitSlash(match_unfilled_format_keys_sub(
                         substitute(IF isdvd THEN ReplaceDotExt(format)
                                    ELSE format, fd.data)), <<>>))

Format(format, md, file) == Render(format, md, formatdata(format, md, file))

analyze_video_file(format, components, file) ==
  Format(format, Extract(components, file), file)

(***************************************************************************)
(* The state.                                                              *)
(***************************************************************************)
VARIABLES
  fsFiles,        \* the files on disk (absolute paths)
  fsDirs,         \* the directories on disk (absolute paths)
  cwd,            \* the working directory, against which relative paths go
  format,         \* args.format
  argsSubs,       \* args.subs is set
  argsExecute,    \* args.execute
  argsBatch,      \* args.batch
  cmds,           \* the command queue
  cmds_history,   \* commands remembered as processed
  created_paths,  \* directories for which a mkdir was queued
  dircount_cache, \* root -> number of subdirectories
  todo,           \* the directories os.walk has still to yield
  pc,             \* where the program is
  visits,         \* what the walker found and planned, per directory
  warnings,       \* the orphan warnings printed
  log,            \* what run_cmd / pop_cmd / flush_cmds did, per command
  verdict,        \* the outcome of the format validation
  run,            \* 1 in the first run of the program, 2 in the second
  rendered        \* what analyze_video_file was given and what it returned

vars ==
  <<fsFiles, fsDirs, cwd, format, argsSubs, argsExecute, argsBatch, cmds,
    cmds_history, created_paths, dircount_cache, todo, pc, visits, warnings,
    log, verdict, run, rendered>>

(***************************************************************************)
(* Paths.  An absolute path starts with one of the root names; any other   *)
(* path is relative to the working directory.  os.path.join(p, "") leaves  *)
(* a trailing separator, written as a trailing empty name.                 *)
(***************************************************************************)
MEDIA == <<"/media">>

CWDN == <<"/cwd">>

IMPORT == <<"/import">>

STAR == <<"*">>

media_dir == <<MEDIA>>

IsAbs(p) == p # <<>> /\ Head(p) \in {MEDIA, CWDN, IMPORT}

Norm(p) == IF p # <<>> /\ Last(p) = <<>> THEN Front(p) ELSE p

Resolve(p) == Norm(IF IsAbs(p) THEN p ELSE cwd \o p)

JoinEmpty(p) == IF p # <<>> /\ Last(p) = <<>> THEN p ELSE Append(p, <<>>)

exists(p) == Resolve(p) \in (fsFiles \cup fsDirs)

ChildDirs(root) == {Last(d) : d \in {e \in fsDirs : Len(e) = Len(root) + 1
                                       /\ Front(e) = root}}

ChildFiles(root) == {Last(f) : f \in {e \in fsFiles : Len(e) = Len(root) + 1
                                        /\ Front(e) = root}}

(***************************************************************************)
(* queue_cmd and move.  A queued command is the command word with its      *)
(* paths; st is [cmds, created].                                           *)
(***************************************************************************)
queue_cmd(q, cmd, paths) == Append(q, [cmd |-> cmd, paths |-> paths])

move(st, fromdir, fromfile, islist, todir, tofile, all) ==
  LET topath == IF tofile = <<>> THEN JoinEmpty(todir)
                ELSE Append(todir, tofile)
      paths == IF islist
               THEN (IF all THEN <<Append(fromdir, STAR)>>
                     ELSE [i \in 1..Len(fromfile) |->
                             Append(fromdir, fromfile[i])]) \o <<topath>>
               ELSE <<Append(fromdir, fromfile), topath>>
      mk == todir \notin st.created /\ ~exists(todir)
      q1 == IF mk THEN queue_cmd(st.cmds, "mkdir -p", <<todir>>) ELSE st.cmds
  IN [cmds |-> queue_cmd(q1, "mv", paths),
      created |-> IF mk THEN st.created \cup {todir} ELSE st.created]

(***************************************************************************)
(* The classification of the files of one directory.                       *)
(***************************************************************************)
\* os.path.splitext, with ext.strip('.').lower() applied to the extension
splitext(file) ==
  LET dots == {i \in 2..Len(file) :
                 file[i] = "." /\ \E j \in 1..(i - 1) : file[j] # "."}
  IN IF dots = {} THEN [fname |-> file, ext |-> <<>>]
     ELSE LET j == CHOOSE d \in dots : \A e \in dots : d >= e
          IN [fname |-> SubSeq(file, 1, j - 1),
              ext |-> LowerStr(SubSeq(file, j + 1, Len(file)))]

IsSuffix(t, s) ==
  Len(t) <= Len(s) /\ SubSeq(s, Len(s) - Len(t) + 1, Len(s)) = t

IsPrefix(t, s) == Len(t) <= Len(s) /\ SubSeq(s, 1, Len(t)) = t

fnmatch(f, pat) ==
  CASE pat.kind = "suffix" -> IsSuffix(pat.text, f)
    [] pat.kind = "prefix" -> IsPrefix(pat.text, f)
    [] OTHER -> f = pat.text

fnmatch_multi(file, patterns) ==
  \E i \in 1..Len(patterns) : fnmatch(LowerStr(file), patterns[i])

in_video_types(ext) == Len(ext) = 1 /\ ext[1] \in video_type_keys

in_subfiles_ext(ext) == Len(ext) = 1 /\ ext[1] \in subfiles_ext

is_sample(fname) ==
  \E i \in 1..Len(fname) : Lower(fname[i]) \in {"sample", "trailer"}

\* subfiles is a dict fname -> list of extensions, kept as a sequence of
\* [fname, exts] in the order of first insertion
subfiles_has(subfiles, fname) ==
  \E i \in 1..Len(subfiles) : subfiles[i].fname = fname

subfiles_get(subfiles, fname) ==
  subfiles[CHOOSE i \in 1..Len(subfiles) : subfiles[i].fname = fname].exts

subfiles_add(subfiles, fname, ext) ==
  IF subfiles_has(subfiles, fname)
  THEN [i \in 1..Len(subfiles) |->
          IF subfiles[i].fname = fname
          THEN [subfiles[i] EXCEPT !.exts = Append(@, ext)]
          ELSE subfiles[i]]
  ELSE Append(subfiles, [fname |-> fname, exts |-> <<ext>>])

RECURSIVE subfiles_del(_, _)
subfiles_del(subfiles, fname) ==
  IF subfiles = <<>> THEN <<>>
  ELSE IF Head(subfiles).fname = fname THEN Tail(subfiles)
       ELSE <<Head(subfiles)>> \o subfiles_del(Tail(subfiles), fname)

subfile_names(fname, exts) ==
  [i \in 1..Len(exts) |-> fname \o <<".">> \o exts[i]]

EmptyBuckets(media) ==
  [mediafiles |-> media, subfiles |-> <<>>, keepfiles |-> <<>>,
   deletefiles |-> <<>>, metafiles |-> <<>>, need_subs |-> FALSE]

classify_file_nosample(b, file) ==
  LET se == splitext(file)
  IN IF fnmatch_multi(file, default_keepfiles)
     THEN [b EXCEPT !.keepfiles = Append(@, file)]
     ELSE IF fnmatch_multi(file, default_deletefiles)
     THEN [b EXCEPT !.deletefiles = Append(@, file)]
     ELSE IF in_video_types(se.ext)
     THEN [b EXCEPT !.mediafiles = Append(@, file),
                    !.need_subs = @ \/ se.ext[1] \in find_subtitles]
     ELSE IF in_subfiles_ext(se.ext)
     THEN [b EXCEPT !.subfiles = subfiles_add(@, se.fname, se.ext)]
     ELSE [b EXCEPT !.metafiles = Append(@, file)]

classify_file(b, file) ==
  LET se == splitext(file)
  IN IF fnmatch_multi(file, default_keepfiles)
     THEN [b EXCEPT !.keepfiles = Append(@, file)]
     ELSE IF fnmatch_multi(file, default_deletefiles)
     THEN [b EXCEPT !.deletefiles = Append(@, file)]
     ELSE IF in_video_types(se.ext)
     THEN (IF is_sample(se.fname)
           THEN [b EXCEPT !.metafiles = Append(@, file)]
           ELSE [b EXCEPT !.mediafiles = Append(@, file),
                          !.need_subs = @ \/ se.ext[1] \in find_subtitles])
     ELSE IF in_subfiles_ext(se.ext)
     THEN [b EXCEPT !.subfiles = subfiles_add(@, se.fname, se.ext)]
     ELSE [b EXCEPT !.metafiles = Append(@, file)]

RECURSIVE classify(_, _)
classify(b, files) ==
  IF files = <<>> THEN b
  ELSE classify(classify_file(b, Head(files)), Tail(files))

(***************************************************************************)
(* run_cmd, pop_cmd, flush_cmds.                                           *)
(*                                                                         *)
(* run_cmd gets a string of the queue (queue_cmd appends strings).  When   *)
(* it decides to run the command it evaluates cmd['cmd'], which raises     *)
(* TypeError on a string; the ssh branch below it is unfinished.  So a     *)
(* command is either not run (return code -1) or the call raises.          *)
(* answer is what the user types at the prompt.                            *)
(***************************************************************************)
NotRun == -1

run_cmd(cmd, execute, answer) ==
  LET prompted == ~execute /\ ~argsBatch
      do_cmd == IF prompted THEN answer ELSE TRUE
  IN [prompted |-> prompted,
      raised |-> do_cmd /\ (argsExecute \/ execute),
      retcode |-> NotRun]

\* one entry of the log per command that pop_cmd or flush_cmds handles
LogEntry(cmd, what) == [cmd |-> cmd, what |-> what]

RunOutcome(r) ==
  IF r.raised THEN "raised"
  ELSE IF r.retcode # NotRun THEN "executed" ELSE "not run"

\* pop_cmd: the result is [cmds, history, log, raised]
pop_cmd(q, history, lg, execute, answer) ==
  LET cmd == Last(q)
      r == run_cmd(cmd, execute, answer)
  IN IF cmd \in history
     THEN [cmds |-> Front(q), history |-> history,
           log |-> Append(lg, LogEntry(cmd, "skipped")), raised |-> FALSE]
     ELSE [cmds |-> Front(q),
           history |-> IF ~r.raised /\ r.retcode # NotRun
                       THEN history \cup {cmd} ELSE history,
           log |-> Append(lg, LogEntry(cmd, RunOutcome(r))),
           raised |-> r.raised]

\* flush_cmds: answers[i] is the user's answer for the i-th command
RECURSIVE flush_loop(_, _, _, _, _)
flush_loop(q, i, history, lg, answers) ==
  IF i > Len(q) THEN [history |-> history, log |-> lg, raised |-> FALSE]
  ELSE IF q[i] \in history
       THEN flush_loop(q, i + 1, history \cup {q[i]},
                       Append(lg, LogEntry(q[i], "skipped")), answers)
       ELSE LET r == run_cmd(q[i], FALSE, answers[i])
            IN IF r.raised
               THEN [history |-> history,
                     log |-> Append(lg, LogEntry(q[i], "raised")),
                     raised |-> TRUE]
               ELSE flush_loop(q, i + 1, history \cup {q[i]},
                               Append(lg, LogEntry(q[i], RunOutcome(r))),
                               answers)

flush_cmds(q, history, lg, answers) == flush_loop(q, 1, history, lg, answers)

(***************************************************************************)
(* The move planner of one media unit (the body of the walk loop from      *)
(* "MEDIA FILES" on).  ps is the state of the loop:                        *)
(*   cmds, created   the queue and created_paths                           *)
(*   subfiles        the subtitles not yet attached to a media file        *)
(*   conc            conc_moves of the group at hand                       *)
(*   moved_meta      moved_meta_already                                    *)
(*   warnings        the warnings printed                                  *)
(*   crash           an exception left the loop                            *)
(***************************************************************************)
RECURSIVE move_subs(_, _, _, _, _, _)
move_subs(st, root, fname, exts, newroot, nf_name) ==
  IF exts = <<>> THEN st
  ELSE move_subs(move(st, root, fname \o <<".">> \o Head(exts), FALSE,
                      newroot, nf_name \o <<".">> \o Head(exts), FALSE),
                 root, fname, Tail(exts), newroot, nf_name)

plan_file(ps, root, newroot, samedir, f, nf) ==
  LET fname == splitext(f).fname
      has == subfiles_has(ps.subfiles, fname)
      exts == subfiles_get(ps.subfiles, fname)
      st0 == [cmds |-> ps.cmds, created |-> ps.created]
  IN IF f # nf
     THEN LET st1 == move(st0, root, f, FALSE, newroot, nf, FALSE)
              st2 == IF has
                     THEN move_subs(st1, root, fname, exts, newroot,
                                    splitext(nf).fname)
                     ELSE st1
          IN [ps EXCEPT !.cmds = st2.cmds, !.created = st2.created,
                        !.subfiles = IF has THEN subfiles_del(@, fname) ELSE @]
     ELSE IF ~samedir
     THEN [ps EXCEPT !.conc = Append(@, f)
                               \o (IF has THEN subfile_names(fname, exts)
                                   ELSE <<>>),
                     !.subfiles = IF has THEN subfiles_del(@, fname) ELSE @]
     ELSE ps

RECURSIVE plan_files(_, _, _, _, _)
plan_files(ps, root, newroot, samedir, pairs) ==
  IF pairs = <<>> THEN ps
  ELSE plan_files(plan_file(ps, root, newroot, samedir,
                            Head(pairs)[1], Head(pairs)[2]),
                  root, newroot, samedir, Tail(pairs))

RECURSIVE orphan_names(_)
orphan_names(subfiles) ==
  IF subfiles = <<>> THEN <<>>
  ELSE subfile_names(Head(subfiles).fname, Head(subfiles).exts)
         \o orphan_names(Tail(subfiles))

same_dir(root, newpath) == (media_dir \o newpath = root)

\* "if not same_dir and not moved_meta_already": the orphan subtitles, the
\* metadata folder and the keep files join conc_moves of this destination.
\* conc_moves.append('meta_dir_name') appends the literal string, then
\* metafiles.remove(meta_dir_name) raises ValueError: the name was removed
\* from the list in the METAFILES step
plan_leftover_noorphans(p1, samedir, has_meta, metafiles, keepfiles) ==
  LET orphans == Len(p1.subfiles) > 0
      warned == IF orphans
                THEN Append(p1.warnings, p1.conc \o orphan_names(p1.subfiles))
                ELSE p1.warnings
      again == Len(metafiles) > 0 /\ has_meta
  IN IF samedir \/ p1.moved_meta THEN p1
     ELSE IF again /\ ~Contains(metafiles, meta_dir_name)
     THEN [p1 EXCEPT !.warnings = warned, !.crash = TRUE]
     ELSE [p1 EXCEPT !.conc = @
                        \o (IF again THEN <<<<"meta_dir_name">>>> ELSE <<>>)
                        \o keepfiles,
                     !.warnings = warned,
                     !.moved_meta = TRUE]

plan_leftover_nokeep(p1, samedir, has_meta, metafiles, keepfiles) ==
  LET orphans == Len(p1.subfiles) > 0
      conc2 == IF orphans THEN p1.conc \o orphan_names(p1.subfiles)
               ELSE p1.conc
      warned == IF orphans THEN Append(p1.warnings, conc2) ELSE p1.warnings
      again == Len(metafiles) > 0 /\ has_meta
  IN IF samedir \/ p1.moved_meta THEN p1
     ELSE IF again /\ ~Contains(metafiles, meta_dir_name)
     THEN [p1 EXCEPT !.conc = conc2, !.warnings = warned, !.crash = TRUE]
     ELSE [p1 EXCEPT !.conc = conc2
                        \o (IF again THEN <<<<"meta_dir_name">>>> ELSE <<>>),
                     !.warnings = warned,
                     !.moved_meta = TRUE]

plan_leftover(p1, samedir, has_meta, metafiles, keepfiles) ==
  LET orphans == Len(p1.subfiles) > 0
      conc2 == IF orphans THEN p1.conc \o orphan_names(p1.subfiles)
               ELSE p1.conc
      warned == IF orphans THEN Append(p1.warnings, conc2) ELSE p1.warnings
      again == Len(metafiles) > 0 /\ has_meta
  IN IF samedir \/ p1.moved_meta THEN p1
     ELSE IF again /\ ~Contains(metafiles, meta_dir_name)
     THEN [p1 EXCEPT !.conc = conc2, !.warnings = warned, !.crash = TRUE]
     ELSE [p1 EXCEPT !.conc = conc2
                        \o (IF again THEN <<<<"meta_dir_name">>>> ELSE <<>>)
                        \o keepfiles,
                     !.warnings = warned,
                     !.moved_meta = TRUE]

\* "if len(conc_moves)>0": the batched move of this destination
plan_conc(p2, root, newpath, ngroups) ==
  LET st0 == [cmds |-> p2.cmds, created |-> p2.created]
      st1 == IF ~same_dir(root, newpath) /\ ngroups = 1
             THEN move(st0, root, p2.conc, TRUE, media_dir \o newpath, <<>>,
                       TRUE)
             ELSE move(st0, root, p2.conc, TRUE, newpath, <<>>, FALSE)
  IN IF p2.crash \/ Len(p2.conc) = 0 THEN p2
     ELSE [p2 EXCEPT !.cmds = st1.cmds, !.created = st1.created]

\* one pass of "for newpath in moves.iterkeys()"
plan_group(ps, root, group, ngroups, has_meta, metafiles, keepfiles) ==
  plan_conc(
    plan_leftover(
      plan_files([ps EXCEPT !.conc = <<>>], root, media_dir \o group.newpath,
                 same_dir(root, group.newpath), group.files),
      same_dir(root, group.newpath), has_meta, metafiles, keepfiles),
    root, group.newpath, ngroups)

RECURSIVE plan_groups(_, _, _, _, _, _, _)
plan_groups(ps, root, moves, order, has_meta, metafiles, keepfiles) ==
  IF order = <<>> \/ ps.crash THEN ps
  ELSE plan_groups(plan_group(ps, root, moves[Head(order)], Len(moves),
                              has_meta, metafiles, keepfiles),
                   root, moves, Tail(order), has_meta, metafiles, keepfiles)

\* moves[newpath].append((file, newfile)); a dict kept as a sequence of
\* [newpath, files] in the order of first insertion
moves_add(moves, newpath, f, nf) ==
  IF \E i \in 1..Len(moves) : moves[i].newpath = newpath
  THEN [i \in 1..Len(moves) |->
          IF moves[i].newpath = newpath
          THEN [moves[i] EXCEPT !.files = Append(@, <<f, nf>>)]
          ELSE moves[i]]
  ELSE Append(moves, [newpath |-> newpath, files |-> <<<<f, nf>>>>])

\* "for file in mediafiles": [crash, moves]
moves_step(acc, file, a) ==
  IF a.crash THEN [acc EXCEPT !.crash = TRUE]
  ELSE [acc EXCEPT !.moves = moves_add(@, a.newpath, file, a.newfile)]

RECURSIVE build_moves(_, _, _, _)
build_moves(acc, fmt, components, mediafiles) ==
  IF mediafiles = <<>> \/ acc.crash THEN acc
  ELSE build_moves(moves_step(acc, Head(mediafiles),
                              analyze_video_file(fmt, components,
                                                 Head(mediafiles))),
                   fmt, components, Tail(mediafiles))

\* the upward walk that collects the component names: [crash, components]
RECURSIVE climb(_, _, _)
climb(path, components, cache) ==
  IF path = media_dir THEN [crash |-> FALSE, components |-> components]
  ELSE IF path \notin DOMAIN cache
       THEN [crash |-> TRUE, components |-> components]
       ELSE IF cache[path] < 3
            THEN climb(Front(path), Append(components, Last(path)), cache)
            ELSE [crash |-> FALSE, components |-> components]

path_components(root, cache) == climb(Front(root), <<Last(root)>>, cache)

(***************************************************************************)
(* One iteration of "for root, dirs, files in os.walk(args.media_dir)".    *)
(***************************************************************************)
default_exclude ==
  {<<"Own">>, <<"Own", " ", "Videos">>, <<"Series">>,
   <<"Trailers", " ", "and", " ", "Shortfilms">>, <<"Youtube">>,
   <<"_", "Recent">>}

\* the subtitles found by listing the directory again after the search
RECURSIVE relist_subfiles(_, _)
relist_subfiles(acc, names) ==
  IF names = <<>> THEN acc
  ELSE LET se == splitext(Head(names))
       IN relist_subfiles(IF in_subfiles_ext(se.ext)
                          THEN subfiles_add(acc, se.fname, se.ext) ELSE acc,
                          Tail(names))

\* the loop body up to the analysis of the media files: everything that
\* does not depend on the order of the destinations or on the user
walk_pre(root) ==
  LET alldirs == SetToSeq(ChildDirs(root))
      dirs0 == SelectSeq(alldirs, LAMBDA d : d \notin default_exclude)
      has_ts == Contains(dirs0, <<"VIDEO_TS">>)
      dirs == SelectSeq(dirs0, LAMBDA d : d # <<"VIDEO_TS">>)
      files == SetToSeq(ChildFiles(root))
      cache == (root :> Len(dirs)) @@ dircount_cache
      b == classify(EmptyBuckets(IF has_ts THEN <<<<"VIDEO_TS">>>> ELSE <<>>),
                    files)
      \* DELETE FILES
      q1 == IF b.deletefiles # <<>>
            THEN queue_cmd(cmds, "rm",
                           [i \in 1..Len(b.deletefiles) |->
                              Append(root, b.deletefiles[i])])
            ELSE cmds
      \* METAFILES
      metafiles0 == b.metafiles \o dirs
      metapath == root \o <<meta_dir_name, <<>>>>
      has_meta == Contains(metafiles0, meta_dir_name)
      metafiles == IF has_meta THEN RemoveFirst(metafiles0, meta_dir_name)
                   ELSE metafiles0
      st2 == IF Len(metafiles) > 0
             THEN move([cmds |-> q1, created |-> created_paths], root,
                       metafiles, TRUE, metapath, <<>>, FALSE)
             ELSE [cmds |-> q1, created |-> created_paths]
      \* NEW SUBFILES
      search == argsSubs /\ b.need_subs /\ Len(b.subfiles) = 0
      subfiles == IF search
                  THEN relist_subfiles(<<>>, SetToSeq(ChildFiles(root)
                                                  \cup ChildDirs(root)))
                  ELSE b.subfiles
      \* MEDIA FILES
      comp == path_components(root, cache)
      built == build_moves([crash |-> FALSE, moves |-> <<>>], format,
                           comp.components, b.mediafiles)
  IN [root |-> root, files |-> files, dirs |-> dirs, b |-> b,
      unit |-> Len(b.mediafiles) > 0, cache |-> cache,
      has_meta |-> has_meta, metafiles |-> metafiles, st2 |-> st2,
      search |-> search, subfiles |-> subfiles,
      components |-> comp.components,
      crash2 |-> comp.crash \/ built.crash,
      moves |-> IF comp.crash THEN <<>> ELSE built.moves]

\* the rest of the loop body; order is the order in which the dict of
\* destinations is iterated, popped is what pop_cmd did with the search
\* command
walk_groups(w, order, popped) ==
  LET crash1 == w.search /\ popped.raised
      ps0 == [cmds |-> IF w.search THEN popped.cmds ELSE w.st2.cmds,
              created |-> w.st2.created, subfiles |-> w.subfiles,
              conc |-> <<>>, moved_meta |-> FALSE, warnings |-> warnings,
              crash |-> crash1 \/ w.crash2]
  IN IF crash1 \/ w.crash2 THEN ps0
     ELSE plan_groups(ps0, w.root, w.moves, order, w.has_meta, w.metafiles,
                      w.b.keepfiles)

walk_result(w, popped, ps) ==
  [crash |-> ps.crash,
   planned |-> ~(w.search /\ popped.raised) /\ ~w.crash2,
   cmds |-> ps.cmds,
   created |-> ps.created,
   warnings |-> ps.warnings,
   history |-> IF w.search THEN popped.history ELSE cmds_history,
   log |-> IF w.search THEN popped.log ELSE log]

walk_popped(w, order, popped) ==
  walk_result(w, popped, walk_groups(w, order, popped))

\* answer is the user's answer to the prompt of pop_cmd
walk_plan(w, order, answer) ==
  walk_popped(w, order,
              pop_cmd(queue_cmd(w.st2.cmds, "periscope",
                                [i \in 1..Len(w.b.mediafiles) |->
                                   Append(w.root, w.b.mediafiles[i])]),
                      cmds_history, log, FALSE, answer))

\* the directories os.walk goes into after the loop body: dirs as the body
\* left it, emptied by "del dirs[:]" when the directory is a unit
descend_dirs_noprune(w) == [i \in 1..Len(w.dirs) |-> Append(w.root, w.dirs[i])]

descend_dirs_none(w) == <<>>

descend_dirs(w) ==
  IF w.unit THEN <<>>
  ELSE [i \in 1..Len(w.dirs) |-> Append(w.root, w.dirs[i])]

Visit(w, order, crash, planned, first, last, warned) ==
  [root |-> w.root, files |-> w.files, dirs |-> w.dirs, b |-> w.b,
   unit |-> w.unit, crash |-> crash, planned |-> planned,
   has_meta |-> w.has_meta, metafiles |-> w.metafiles,
   subfiles |-> w.subfiles, moves |-> w.moves, order |-> order,
   first |-> first, last |-> last, warned |-> warned]

WalkDir ==
  /\ pc = "walk"
  /\ todo # <<>>
  /\ \E w \in {walk_pre(Head(todo))} :
       IF ~w.unit
       THEN \E descend \in {descend_dirs(w)} :
              /\ dircount_cache' = w.cache
              /\ visits' = Append(visits, Visit(w, <<>>, FALSE, FALSE,
                                                Len(cmds) + 1, Len(cmds),
                                                <<>>))
              /\ todo' = descend \o Tail(todo)
              /\ pc' = IF descend \o Tail(todo) = <<>> THEN "done"
                       ELSE "walk"
              /\ UNCHANGED <<cmds, created_paths, warnings, cmds_history,
                             log>>
       ELSE \E order \in Perms(1..Len(w.moves)) :
            \E answer \in (IF w.search /\ ~argsBatch THEN BOOLEAN
                           ELSE {FALSE}) :
            \E p \in {walk_plan(w, order, answer)} :
              /\ dircount_cache' = w.cache
              /\ cmds' = p.cmds
              /\ created_paths' = p.created
              /\ warnings' = p.warnings
              /\ cmds_history' = p.history
              /\ log' = p.log
              /\ visits' = Append(visits,
                                  Visit(w, order, p.crash, p.planned,
                                        Len(cmds) + 1, Len(p.cmds),
                                        SubSeq(p.warnings, Len(warnings) + 1,
                                               Len(p.warnings))))
              \* del dirs[:]
              /\ todo' = IF p.crash THEN todo
                        ELSE descend_dirs(w) \o Tail(todo)
              /\ pc' = IF p.crash THEN "crashed"
                       ELSE IF descend_dirs(w) \o Tail(todo) = <<>>
                       THEN "done" ELSE "walk"
  /\ UNCHANGED <<fsFiles, fsDirs, cwd, format, argsSubs, argsExecute,
                 argsBatch, verdict, run,
                 rendered>>

(***************************************************************************)
(* The import pass.                                                        *)
(***************************************************************************)
default_noimport == {<<"apps">>, <<"Bastardo">>, <<"games">>, <<"macapps">>}

import_dir == <<IMPORT>>

\* while os.path.exists(os.path.join(args.media_dir, dirname)):
\*   dirname = "copy_" + dirname
RECURSIVE free_dirname(_)
free_dirname(dirname) ==
  IF exists(Append(media_dir, dirname))
  THEN free_dirname(<<"copy", "_">> \o dirname)
  ELSE dirname

\* has_media: the call move(orig_root, destination) has two arguments where
\* move needs three, so finding a media file raises TypeError
has_media(files, path, orig_root) ==
  LET found == \E f \in files : in_video_types(splitext(f).ext)
  IN [found |-> found,
      dirname |-> free_dirname(Last(orig_root)),
      raised |-> found]

\* the directories os.walk yields below an import subdirectory
import_walked(subdir) ==
  {d \in fsDirs :
     /\ Len(d) >= Len(subdir)
     /\ SubSeq(d, 1, Len(subdir)) = subdir
     /\ \A i \in (Len(subdir) + 1)..Len(d) : d[i] \notin default_noimport}

import_subdirs ==
  {Append(import_dir, d) : d \in ChildDirs(import_dir) \ default_noimport}

import_raises ==
  \E sd \in import_subdirs : \E d \in import_walked(sd) :
     has_media(ChildFiles(d) \ default_noimport, d, sd).raised

init_cmds == [cmds |-> <<>>, cmds_history |-> {}]

ImportPass ==
  /\ pc = "import"
  /\ IF import_dir \notin fsDirs
     THEN /\ pc' = "walk"
          /\ UNCHANGED <<cmds, cmds_history, log>>
     ELSE IF import_raises
     THEN /\ pc' = "crashed"
          /\ UNCHANGED <<cmds, cmds_history, log>>
     ELSE \E fl \in {flush_cmds(cmds, cmds_history, log,
                                [i \in 1..Len(cmds) |-> FALSE])} :
            /\ pc' = "walk"
            /\ cmds' = init_cmds.cmds
            /\ cmds_history' = init_cmds.cmds_history
            /\ log' = fl.log
  /\ UNCHANGED <<fsFiles, fsDirs, cwd, format, argsSubs, argsExecute,
                 argsBatch, created_paths, dircount_cache, todo, visits,
                 warnings, verdict, run,
                 rendered>>

(***************************************************************************)
(* The media trees and templates the walk is checked on.                   *)
(***************************************************************************)
format_rename ==
  <<"$filetype", "/", "$title", "/", "$title", " ", "$part", ".", "$ext">>

Formats == {default_format, format_rename}

\* the directory of the unit: unsorted below the media directory, or where
\* the default format puts it
UnitRoots ==
  {<<MEDIA, <<"Matrix", ".", "1999">>>>,
   <<MEDIA, <<"Divx">>, <<"Matrix", " ", "(", "1999", ")">>>>}

RECURSIVE Prefixes(_)
Prefixes(p) == IF Len(p) <= 1 THEN {p} ELSE {p} \cup Prefixes(Front(p))

\* what a tree may hold besides the unit directory u: each candidate is a
\* set of files and a set of directories
Candidates(u) ==
  {[files |-> {Append(u, n)}, dirs |-> {}] :
      n \in {<<"matrix", ".", "cd1", ".", "avi">>,
             <<"matrix", ".", "cd1", ".", "srt">>,
             <<"Matrix", " ", "cd1", ".", "avi">>,
             <<"neo", ".", "avi">>,
             <<"neo", ".", "mkv">>,
             <<"extra", ".", "srt">>,
             <<"info", ".", "nfo">>,
             <<"matrix", ".", "sfv">>,
             <<"vts", ".", "ifo">>,
             <<"sample", ".", "avi">>}}
  \cup {[files |-> {}, dirs |-> {Append(u, n)}] :
          n \in {meta_dir_name, <<"VIDEO_TS">>}}
  \cup {[files |-> {Append(u, <<"cover", ".", "jpg">>)},
         dirs |-> {Append(u, meta_dir_name)}]}
  \cup {[files |-> {u \o <<<<"cd2">>, <<"matrix", ".", "cd2", ".", "avi">>>>},
         dirs |-> {Append(u, <<"cd2">>)}],
        [files |-> {<<MEDIA, <<"Series">>, <<"pilot", ".", "avi">>>>},
         dirs |-> {<<MEDIA, <<"Series">>>>}]}
  \cup {[files |-> {<<MEDIA, <<"Matrix", "_", "1999">>,
                      <<"matrix", ".", "cd2", ".", "avi">>>>},
         dirs |-> {<<MEDIA, <<"Matrix", "_", "1999">>>>}],
        [files |-> {<<IMPORT, <<"new">>, <<"info", ".", "nfo">>>>},
         dirs |-> {<<IMPORT>>, <<IMPORT, <<"new">>>>}],
        [files |-> {<<IMPORT, <<"got">>, <<"neo", ".", "avi">>>>},
         dirs |-> {<<IMPORT>>, <<IMPORT, <<"got">>>>}]}

\* the working directory and the options: run from the media directory or
\* from elsewhere, with or without the subtitle search
Environments ==
  {[cwd |-> <<MEDIA>>, subs |-> FALSE, execute |-> FALSE, batch |-> TRUE],
   [cwd |-> <<CWDN>>, subs |-> FALSE, execute |-> FALSE, batch |-> TRUE]}
  \cup [cwd : {<<CWDN>>}, subs : {TRUE}, execute : BOOLEAN, batch : BOOLEAN]

InitRun ==
  /\ cmds = <<>>
  /\ cmds_history = {}
  /\ created_paths = {}
  /\ dircount_cache = <<>>
  /\ todo = <<media_dir>>
  /\ visits = <<>>
  /\ warnings = <<>>
  /\ log = <<>>
  /\ verdict = [given |-> <<>>, result |-> "none"]
  /\ rendered = <<>>

Init ==
  /\ \E u \in UnitRoots :
       \E S \in {T \in SUBSET Candidates(u) : Cardinality(T) <= MaxFiles} :
          /\ fsFiles = UNION {c.files : c \in S}
          /\ fsDirs = {<<CWDN>>} \cup Prefixes(u) \cup UNION {c.dirs : c \in S}
  /\ format \in Formats
  /\ \E e \in Environments :
       /\ cwd = e.cwd
       /\ argsSubs = e.subs
       /\ argsExecute = e.execute
       /\ argsBatch = e.batch
  /\ pc = "import"
  /\ run = 1
  /\ InitRun

Next ==
  \/ ImportPass
  \/ WalkDir

Spec == Init /\ [][Next]_vars

(***************************************************************************)
(* The command queue on its own: commands are queued, popped, flushed and  *)
(* the queue is reset, in any order, with any options.                     *)
(***************************************************************************)
CmdPool ==
  {[cmd |-> "rm", paths |-> <<<<MEDIA, <<"gone", ".", "sfv">>>>>>],
   [cmd |-> "mkdir -p", paths |-> <<<<MEDIA, <<"Divx">>>>>>]}

\* sub.returncode, were the command started on the empty tree: rm of a
\* file that is not there fails, mkdir -p succeeds
ExitCode(c) == IF c.cmd = "rm" THEN 1 ELSE 0

InitCmd ==
  /\ fsFiles = {}
  /\ fsDirs = {media_dir}
  /\ cwd = media_dir
  /\ format = default_format
  /\ argsSubs = FALSE
  /\ argsExecute \in BOOLEAN
  /\ argsBatch \in BOOLEAN
  /\ pc = "cmd"
  /\ run = 1
  /\ InitRun

QueueCmd ==
  /\ pc = "cmd"
  /\ Len(cmds) < MaxQueue
  /\ \E c \in CmdPool : cmds' = queue_cmd(cmds, c.cmd, c.paths)
  /\ UNCHANGED <<fsFiles, fsDirs, cwd, format, argsSubs, argsExecute,
                 argsBatch, cmds_history, created_paths, dircount_cache,
                 todo, pc, visits, warnings, log, verdict, run,
                 rendered>>

PopCmd ==
  /\ pc = "cmd"
  /\ cmds # <<>>
  /\ Len(log) < MaxLog
  /\ \E execute \in BOOLEAN : \E answer \in BOOLEAN :
     \E r \in {pop_cmd(cmds, cmds_history, log, execute, answer)} :
       /\ cmds' = r.cmds
       /\ cmds_history' = r.history
       /\ log' = r.log
       /\ pc' = IF r.raised THEN "crashed" ELSE "cmd"
  /\ UNCHANGED <<fsFiles, fsDirs, cwd, format, argsSubs, argsExecute,
                 argsBatch, created_paths, dircount_cache, todo, visits,
                 warnings, verdict, run,
                 rendered>>

FlushCmds ==
  /\ pc = "cmd"
  /\ Len(log) + Len(cmds) <= MaxLog
  /\ \E answers \in [1..Len(cmds) -> BOOLEAN] :
     \E r \in {flush_cmds(cmds, cmds_history, log, answers)} :
       /\ cmds_history' = r.history
       /\ log' = r.log
       /\ pc' = IF r.raised THEN "crashed" ELSE "cmd"
  /\ UNCHANGED <<fsFiles, fsDirs, cwd, format, argsSubs, argsExecute,
                 argsBatch, cmds, created_paths, dircount_cache, todo,
                 visits, warnings, verdict, run,
                 rendered>>

\* init_cmds(); the log of this model starts afresh with the history
InitCmds ==
  /\ pc = "cmd"
  /\ cmds' = init_cmds.cmds
  /\ cmds_history' = init_cmds.cmds_history
  /\ log' = <<>>
  /\ UNCHANGED <<fsFiles, fsDirs, cwd, format, argsSubs, argsExecute,
                 argsBatch, created_paths, dircount_cache, todo, pc, visits,
                 warnings, verdict, run,
                 rendered>>

NextCmd ==
  \/ QueueCmd
  \/ PopCmd
  \/ FlushCmds
  \/ InitCmds

SpecCmd == InitCmd /\ [][NextCmd]_vars

(***************************************************************************)
(* A second run on the tree the first run's plan leaves behind.  The       *)
(* queue is executed as a shell would: mkdir -p, rm and mv with the        *)
(* paths of the queue (a relative path is relative to the working          *)
(* directory, "dir/*" stands for the entries of dir).                      *)
(***************************************************************************)
\* the path e after the entry s was renamed to t
MovePath(e, s, t) ==
  IF Len(e) >= Len(s) /\ SubSeq(e, 1, Len(s)) = s
  THEN t \o SubSeq(e, Len(s) + 1, Len(e)) ELSE e

\* mv of one source: into dest when dest is a directory, else to dest; the
\* command fails, and changes nothing, when the source or the directory of
\* the target is missing or the target is a directory that exists
ExecMoveTo(fs, s, target) ==
  IF /\ s \in fs.files \cup fs.dirs
     /\ Front(target) \in fs.dirs
     /\ target \notin fs.dirs
     /\ s \in fs.dirs => target \notin fs.files
  THEN [files |-> {MovePath(e, s, target) : e \in fs.files},
        dirs |-> {MovePath(e, s, target) : e \in fs.dirs}]
  ELSE fs

ExecMoveOne(fs, s, dest) ==
  ExecMoveTo(fs, s,
             IF Last(dest) = <<>> \/ Resolve(dest) \in fs.dirs
             THEN Append(Resolve(dest), Last(s)) ELSE Resolve(dest))

RECURSIVE ExecMoves(_, _, _)
ExecMoves(fs, srcs, dest) ==
  IF srcs = <<>> \/ DOMAIN fs = {} THEN fs
  ELSE ExecMoves(ExecMoveOne(fs, Head(srcs), dest), Tail(srcs), dest)

\* the sources of a move, "dir/*" expanded
Expand(fs, src) ==
  IF Last(src) = STAR
  THEN SetToSeq({e \in fs.files \cup fs.dirs :
                   Len(e) = Len(src) /\ Front(e) = Resolve(Front(src))})
  ELSE <<Resolve(src)>>

RECURSIVE ExpandAll(_, _)
ExpandAll(fs, srcs) ==
  IF srcs = <<>> THEN <<>>
  ELSE Expand(fs, Head(srcs)) \o ExpandAll(fs, Tail(srcs))

ExecCmd(fs, c) ==
  CASE c.cmd = "mkdir -p" ->
         [fs EXCEPT !.dirs = @ \cup Prefixes(Resolve(c.paths[1]))]
    [] c.cmd = "rm" ->
         [fs EXCEPT !.files = @ \ {Resolve(c.paths[i]) :
                                     i \in 1..Len(c.paths)}]
    [] c.cmd = "mv" ->
         ExecMoves(fs, ExpandAll(fs, Front(c.paths)), Last(c.paths))
    [] OTHER -> fs

RECURSIVE ExecAll(_, _)
ExecAll(fs, q) ==
  IF q = <<>> \/ DOMAIN fs = {} THEN fs
  ELSE ExecAll(ExecCmd(fs, Head(q)), Tail(q))

\* the plan of the first run is carried out
ExecutePlan ==
  /\ pc = "done"
  /\ run = 1
  /\ \E fs \in {ExecAll([files |-> fsFiles, dirs |-> fsDirs], cmds)} :
       /\ fsFiles' = fs.files
       /\ fsDirs' = fs.dirs
  /\ pc' = "executed"
  /\ UNCHANGED <<cwd, format, argsSubs, argsExecute, argsBatch, cmds,
                 cmds_history, created_paths, dircount_cache, todo, visits,
                 warnings, log, verdict, run,
                 rendered>>

\* the program is started again, with the same options
Restart ==
  /\ pc = "executed"
  /\ pc' = "import"
  /\ run' = 2
  /\ cmds' = <<>>
  /\ cmds_history' = {}
  /\ created_paths' = {}
  /\ dircount_cache' = <<>>
  /\ todo' = <<media_dir>>
  /\ visits' = <<>>
  /\ warnings' = <<>>
  /\ log' = <<>>
  /\ UNCHANGED <<fsFiles, fsDirs, cwd, format, argsSubs, argsExecute,
                 argsBatch, verdict,
                 rendered>>

NextRerun ==
  \/ ImportPass
  \/ WalkDir
  \/ ExecutePlan
  \/ Restart

SpecRerun == Init /\ [][NextRerun]_vars

(***************************************************************************)
(* The validation of the template at start-up, on its own: any template   *)
(* of up to MaxFormatLen items is given, and is validated.                 *)
(***************************************************************************)
FormatItems ==
  {"$bogus", "$title", "$part", "$filename", "$ext", "/", "movies", "?"}

RECURSIVE SeqsUpTo(_, _)
SeqsUpTo(S, n) ==
  IF n = 0 THEN {<<>>}
  ELSE SeqsUpTo(S, n - 1)
         \cup {Append(s, x) : s \in SeqsUpTo(S, n - 1), x \in S}

\* str.find: the position of the first occurrence, -1 when there is none
find(fmt, x) ==
  IF Contains(fmt, x)
  THEN (CHOOSE i \in 1..Len(fmt) :
          fmt[i] = x /\ \A j \in 1..(i - 1) : fmt[j] # x) - 1
  ELSE -1

\* str.count
count(fmt, x) == Cardinality({i \in 1..Len(fmt) : fmt[i] = x})

\* re.finditer(r"$(\w+)", args.format): '$' is the end of the string in a
\* regular expression, so a match is an end of the string followed by a
\* word
finditer_keys(fmt) ==
  {i \in 1..Len(fmt) : i = Len(fmt) + 1 /\ IsPlaceholder(fmt[i])}

illegal_chars == {"\\", "?", "*", ":", "|", "\"", "<", ">"}

IsLegal(x) == x \notin illegal_chars

\* the exit message of the validation, "ok" when it passes
validate_format(fmt) ==
  IF \E i \in finditer_keys(fmt) : PlaceholderKey[fmt[i]] \notin format_keys
    THEN "not a recognized key"
  ELSE IF fmt # <<>> /\ fmt[1] = "/"
    THEN "cannot begin with /"
  ELSE IF ~Contains(fmt, "$filename") /\ ~Contains(fmt, "$ext")
    THEN "lacks $ext and $filename"
  ELSE IF count(fmt, "/") = 0
    THEN "need to have at least one folder"
  ELSE IF find(fmt, "$title") = -1
    THEN "no $title"
  ELSE IF find(fmt, "$part") >= 0 /\ find(fmt, "$part") < find(fmt, "$title")
    THEN "$part before $title"
  ELSE IF find(fmt, "$part") < 0 /\ find(fmt, "$filename") = -1
    THEN "no $part and no $filename"
  ELSE "ok"

InitFormat ==
  /\ fsFiles = {}
  /\ fsDirs = {media_dir}
  /\ cwd = media_dir
  /\ format \in SeqsUpTo(FormatItems, MaxFormatLen)
  /\ argsSubs = FALSE
  /\ argsExecute = FALSE
  /\ argsBatch = TRUE
  /\ pc = "start"
  /\ run = 1
  /\ InitRun

ValidateFormat ==
  /\ pc = "start"
  /\ verdict' = [given |-> format, result |-> validate_format(format)]
  /\ pc' = IF validate_format(format) = "ok" THEN "import" ELSE "exited"
  /\ format' = IF validate_format(format) = "ok"
               THEN SelectSeq(format, IsLegal) ELSE format
  /\ UNCHANGED <<fsFiles, fsDirs, cwd, argsSubs, argsExecute, argsBatch,
                 cmds, cmds_history, created_paths, dircount_cache, todo,
                 visits, warnings, log, run,
                 rendered>>

NextFormat == ValidateFormat

SpecFormat == InitFormat /\ [][NextFormat]_vars

(***************************************************************************)
(* The analysis of one media file on its own: a unit directory one or two  *)
(* levels below the media directory, a media file in it, a template that   *)
(* passes the validation, and the subdirectory counts the walker cached    *)
(* for the directories above the file.                                     *)
(***************************************************************************)
AnalyzeFolders ==
  {<<"Matrix", ".", "1999">>,
   <<"Matrix", " ", "(", "1999", ")">>,
   <<"matrix", ".", "2003", ".", "dvdrip", ".", "cd2">>,
   <<"neo">>}

AnalyzeFiles ==
  {<<"neo", ".", "mkv">>,
   <<"matrix", ".", "cd1", ".", "avi">>,
   <<"Matrix", " ", "cd1", ".", "avi">>,
   <<"the", " ", "matrix", ".", "1999", ".", "xvid", ".", "avi">>,
   <<"VIDEO_TS">>}

AnalyzeRoots ==
  {media_dir}
    \cup {<<MEDIA, a>> : a \in AnalyzeFolders}
    \cup {<<MEDIA, a, b>> : a, b \in AnalyzeFolders}

AnalyzeFormats ==
  {f \in {default_format,
          format_rename,
          <<"$filetype", "/", "$year", " ", "$title", "/", "$filename">>,
          <<"$filetype", "/", "(", "$year", ")", " ", "$title", "/",
            "$filename">>,
          <<"$title", " ", "[", "$year", "]", "/", "$title", " ", "-", " ",
            "$part", ".", "$ext">>,
          <<"$title", "/", "$title", ".", "$part", ".", "$ext">>} :
     validate_format(f) = "ok"}

InitAnalyze ==
  /\ fsFiles = {}
  /\ fsDirs = {media_dir}
  /\ cwd = media_dir
  /\ format \in AnalyzeFormats
  /\ argsSubs = FALSE
  /\ argsExecute = FALSE
  /\ argsBatch = TRUE
  /\ pc = "analyze"
  /\ run = 1
  /\ cmds = <<>>
  /\ cmds_history = {}
  /\ created_paths = {}
  /\ \E root \in AnalyzeRoots :
        /\ todo = <<root>>
        /\ dircount_cache \in [Prefixes(root) \ {<<>>} -> {1, 3}]
  /\ visits = <<>>
  /\ warnings = <<>>
  /\ log = <<>>
  /\ verdict = [given |-> <<>>, result |-> "none"]
  /\ rendered = <<>>

\* what the walk loop gets for one media file once "components" is built
Analyzed(root, file, comp) ==
  [root |-> root, file |-> file, climb_crash |-> comp.crash,
   components |-> comp.components,
   raw |-> IF comp.crash THEN EmptyMetadata
           ELSE ExtractAll(EmptyMetadata, Append(comp.components, file)),
   md |-> IF comp.crash THEN EmptyMetadata
          ELSE Extract(comp.components, file),
   result |-> IF comp.crash THEN SplitResult(TRUE, <<>>)
              ELSE analyze_video_file(format, comp.components, file)]

\* "components" of the walk loop and one call of analyze_video_file
Analyze ==
  /\ pc = "analyze"
  /\ \E file \in AnalyzeFiles :
       rendered' = Analyzed(Head(todo), file,
                            path_components(Head(todo), dircount_cache))
  /\ pc' = "analyzed"
  /\ UNCHANGED <<fsFiles, fsDirs, cwd, format, argsSubs, argsExecute,
                 argsBatch, cmds, cmds_history, created_paths,
                 dircount_cache, todo, visits, warnings, log, verdict, run>>

NextAnalyze == Analyze

SpecAnalyze == InitAnalyze /\ [][NextAnalyze]_vars

(***************************************************************************)
(* What the queue says about a file.  A move names its sources, or names   *)
(* "fromdir/*", which the shell expands to the entries of fromdir that are *)
(* still there: those no earlier command of the queue moved or removed.    *)
(***************************************************************************)
Occ(seq, x) == Cardinality({i \in 1..Len(seq) : seq[i] = x})

Sources(c) == IF c.cmd = "mv" THEN Front(c.paths) ELSE c.paths

IsDirTarget(c) == Last(Last(c.paths)) = <<>>

\* the directory a move puts its sources in
DestDir(c) ==
  IF IsDirTarget(c) THEN Resolve(Last(c.paths))
  ELSE Front(Resolve(Last(c.paths)))

\* the path the source p of the move c ends at
DestPath(c, p) ==
  IF IsDirTarget(c) THEN Append(Resolve(Last(c.paths)), Last(p))
  ELSE Resolve(Last(c.paths))

Named(k, p) ==
  /\ cmds[k].cmd \in {"mv", "rm"}
  /\ Contains(Sources(cmds[k]), p)

Picks(k, p) ==
  /\ cmds[k].cmd = "mv"
  /\ \/ Contains(Sources(cmds[k]), p)
     \/ /\ Contains(Sources(cmds[k]), Append(Front(p), STAR))
        /\ p \in fsFiles \cup fsDirs
        /\ \A j \in 1..(k - 1) : ~Named(j, p)

Segment(v) == v.first..v.last

Movers(v, p) == {k \in Segment(v) : Picks(k, p)}

(***************************************************************************)
(* C1  Every file listed in a visited directory is put in exactly one of   *)
(* the five buckets, the first whose test it passes in the order keep,     *)
(* delete, media (video extension; sample or trailer goes to metadata),    *)
(* subtitle, metadata.                                                     *)
(***************************************************************************)
SubOcc(subfiles, file) ==
  Cardinality({ij \in (1..Len(subfiles)) \X (1..3) :
                 /\ subfiles[ij[1]].fname = splitext(file).fname
                 /\ ij[2] <= Len(subfiles[ij[1]].exts)
                 /\ subfiles[ij[1]].exts[ij[2]] = splitext(file).ext})

BucketCount(b, file) ==
  [keep |-> Occ(b.keepfiles, file), delete |-> Occ(b.deletefiles, file),
   media |-> Occ(b.mediafiles, file), subtitle |-> SubOcc(b.subfiles, file),
   meta |-> Occ(b.metafiles, file)]

Only(bucket) ==
  [n \in {"keep", "delete", "media", "subtitle", "meta"} |->
     IF n = bucket THEN 1 ELSE 0]

FirstTest(file) ==
  LET ext == splitext(file).ext
  IN IF fnmatch_multi(file, default_keepfiles) THEN "keep"
     ELSE IF fnmatch_multi(file, default_deletefiles) THEN "delete"
     ELSE IF in_video_types(ext)
     THEN (IF is_sample(splitext(file).fname) THEN "meta" ELSE "media")
     ELSE IF in_subfiles_ext(ext) THEN "subtitle"
     ELSE "meta"

C1_OneBucket ==
  \A i \in 1..Len(visits) : \A j \in 1..Len(visits[i].files) :
     BucketCount(visits[i].b, visits[i].files[j])
       = Only(FirstTest(visits[i].files[j]))

C1_Witness ==
  \E i \in 1..Len(visits) :
     /\ Contains(visits[i].b.metafiles, <<"sample", ".", "avi">>)
     /\ visits[i].b.keepfiles # <<>>
     /\ \E j \in 1..Len(visits[i].b.mediafiles) :
          visits[i].b.mediafiles[j] \in Range(visits[i].files)


(***************************************************************************)
(* C2  No two different media files of a unit are moved to the same        *)
(* destination path: files whose template output collides get a            *)
(* disambiguated file name.                                                *)
(***************************************************************************)
C2_NoSharedDestination ==
  \A i \in 1..Len(visits) :
     visits[i].unit =>
       \A a, b \in 1..Len(visits[i].b.mediafiles) :
          a < b =>
            \A k1 \in Movers(visits[i],
                             Append(visits[i].root,
                                    visits[i].b.mediafiles[a])) :
            \A k2 \in Movers(visits[i],
                             Append(visits[i].root,
                                    visits[i].b.mediafiles[b])) :
               DestPath(cmds[k1], Append(visits[i].root,
                                         visits[i].b.mediafiles[a]))
                 # DestPath(cmds[k2], Append(visits[i].root,
                                             visits[i].b.mediafiles[b]))


(***************************************************************************)
(* C3  Over a whole run at most one mkdir is queued for any destination    *)
(* directory, and every move into a directory that is not on disk is       *)
(* preceded in the queue by the mkdir of that directory.                   *)
(***************************************************************************)
IsMkdir(k) == cmds[k].cmd = "mkdir -p"

MkdirOnce ==
  \A i, j \in 1..Len(cmds) :
     i < j /\ IsMkdir(i) /\ IsMkdir(j)
       => Resolve(cmds[i].paths[1]) # Resolve(cmds[j].paths[1])

MkdirBeforeMove ==
  \A k \in 1..Len(cmds) :
     cmds[k].cmd = "mv" /\ DestDir(cmds[k]) \notin fsDirs
       => \E j \in 1..(k - 1) :
             IsMkdir(j) /\ Resolve(cmds[j].paths[1]) = DestDir(cmds[k])

C3_MkdirOncePerDirectory == MkdirOnce /\ MkdirBeforeMove


(***************************************************************************)
(* C4  Every subtitle file that shares its base name with a media file     *)
(* that is moved is the source of exactly one move, to the destination     *)
(* directory of that media file, under the media file's new base name      *)
(* with its own extension; with one destination or with several.           *)
(***************************************************************************)
\* the subtitle files of the visit v with the base name fname
SubsOf(v, fname) ==
  UNION {Range(subfile_names(fname, v.subfiles[e].exts)) :
           e \in {n \in 1..Len(v.subfiles) : v.subfiles[n].fname = fname}}

\* where the subtitle sub goes when it follows the media move cmds[km] of
\* the file at path fp
Follows(km, fp, sub) ==
  Append(DestDir(cmds[km]),
         splitext(Last(DestPath(cmds[km], fp))).fname
           \o <<".">> \o splitext(sub).ext)

SubtitleFollows(v, f) ==
  \A km \in Movers(v, Append(v.root, f)) :
  \A sub \in SubsOf(v, splitext(f).fname) :
     /\ Cardinality(Movers(v, Append(v.root, sub))) = 1
     /\ \A ks \in Movers(v, Append(v.root, sub)) :
           DestPath(cmds[ks], Append(v.root, sub))
             = Follows(km, Append(v.root, f), sub)

C4_SubtitlesFollowMedia ==
  \A i \in 1..Len(visits) :
     visits[i].unit =>
       \A a \in 1..Len(visits[i].b.mediafiles) :
          SubtitleFollows(visits[i], visits[i].b.mediafiles[a])


(***************************************************************************)
(* The destinations of a unit, as the planner went through them.           *)
(***************************************************************************)
\* the positions in the order of the destinations that are not the root
Away(v) ==
  {n \in 1..Len(v.order) : ~same_dir(v.root, v.moves[v.order[n]].newpath)}

FirstAway(v) ==
  v.moves[v.order[CHOOSE n \in Away(v) : \A m \in Away(v) : n <= m]]

\* cmds[k] is the batched move of the destination g
IsBatchOf(k, g) ==
  /\ cmds[k].cmd = "mv"
  /\ Last(cmds[k].paths) \in {JoinEmpty(media_dir \o g.newpath),
                              JoinEmpty(g.newpath)}

\* the subtitle files of v whose base name is no media file's base name
Orphans(v) ==
  UNION {Range(subfile_names(v.subfiles[e].fname, v.subfiles[e].exts)) :
           e \in {n \in 1..Len(v.subfiles) :
                    \A a \in 1..Len(v.b.mediafiles) :
                       splitext(v.b.mediafiles[a]).fname
                         # v.subfiles[n].fname}}

Warned(v, name) == \E n \in 1..Len(v.warned) : Contains(v.warned[n], name)

Removed(v, p) ==
  \E k \in Segment(v) : cmds[k].cmd = "rm" /\ Contains(cmds[k].paths, p)

\* the file at p is moved by the batched move of the first destination
\* that is not the root, and by nothing else
JoinsFirstMove(v, p) ==
  /\ Cardinality(Movers(v, p)) = 1
  /\ \A k \in Movers(v, p) : IsBatchOf(k, FirstAway(v))

(***************************************************************************)
(* C5  As claimed: an orphan subtitle is reported in a warning and left    *)
(* in place, it is the source of no move and no delete, and the planning   *)
(* of its unit goes on without error.                                      *)
(***************************************************************************)
C5_OrphanLeftInPlace ==
  \A i \in 1..Len(visits) :
     visits[i].unit /\ visits[i].planned =>
       \A sub \in Orphans(visits[i]) :
          /\ Warned(visits[i], sub)
          /\ Movers(visits[i], Append(visits[i].root, sub)) = {}
          /\ ~Removed(visits[i], Append(visits[i].root, sub))
          /\ ~visits[i].crash

(***************************************************************************)
(* C5  As the code has it: an orphan subtitle is never deleted.  When a    *)
(* destination of the unit is not the unit's root, the orphan is reported  *)
(* in the warning and joins the batched move of the first such             *)
(* destination, and no other move; when the planning stops on the metadata *)
(* folder that move is not queued.  When every destination is the root     *)
(* the orphan is neither reported nor moved.                               *)
(***************************************************************************)
C5_OrphanJoinsFirstMove ==
  \A i \in 1..Len(visits) :
     visits[i].unit /\ visits[i].planned =>
       \A sub \in Orphans(visits[i]) :
          /\ ~Removed(visits[i], Append(visits[i].root, sub))
          /\ Warned(visits[i], sub) <=> Away(visits[i]) # {}
          /\ IF Away(visits[i]) = {} \/ visits[i].crash
             THEN Movers(visits[i], Append(visits[i].root, sub)) = {}
             ELSE JoinsFirstMove(visits[i], Append(visits[i].root, sub))

C5_Witness ==
  \E i \in 1..Len(visits) :
     /\ visits[i].unit /\ visits[i].planned /\ ~visits[i].crash
     /\ Len(visits[i].moves) >= 2
     /\ \E sub \in Orphans(visits[i]) :
           /\ Warned(visits[i], sub)
           /\ Movers(visits[i], Append(visits[i].root, sub)) # {}

(***************************************************************************)
(* C6  As claimed: the keep files of a unit are moved to the destination   *)
(* directory when the unit has exactly one destination; with two or more   *)
(* destinations no queued operation moves a keep file.                     *)
(***************************************************************************)
C6_KeepFilesOnlyWithOneDestination ==
  \A i \in 1..Len(visits) :
     visits[i].unit /\ visits[i].planned /\ ~visits[i].crash =>
       \A n \in 1..Len(visits[i].b.keepfiles) :
          IF Len(visits[i].moves) = 1
          THEN \/ Away(visits[i]) = {}
               \/ /\ Movers(visits[i], Append(visits[i].root,
                                              visits[i].b.keepfiles[n])) # {}
                  /\ \A k \in Movers(visits[i],
                                     Append(visits[i].root,
                                            visits[i].b.keepfiles[n])) :
                        DestDir(cmds[k])
                          = media_dir \o visits[i].moves[1].newpath
          ELSE Movers(visits[i], Append(visits[i].root,
                                        visits[i].b.keepfiles[n])) = {}

(***************************************************************************)
(* C6  As the code has it: when a destination of the unit is not the       *)
(* unit's root, every keep file joins the batched move of the first such   *)
(* destination and no other move, with one destination or with several;    *)
(* with one destination that move goes to the destination directory.  A    *)
(* keep file is not moved when every destination is the root or when the   *)
(* planning stops on the metadata folder.                                  *)
(***************************************************************************)
C6_KeepFilesJoinFirstMove ==
  \A i \in 1..Len(visits) :
     visits[i].unit /\ visits[i].planned =>
       \A n \in 1..Len(visits[i].b.keepfiles) :
          IF Away(visits[i]) = {} \/ visits[i].crash
          THEN Movers(visits[i], Append(visits[i].root,
                                        visits[i].b.keepfiles[n])) = {}
          ELSE /\ JoinsFirstMove(visits[i],
                                 Append(visits[i].root,
                                        visits[i].b.keepfiles[n]))
               /\ Len(visits[i].moves) = 1 =>
                    \A k \in Movers(visits[i],
                                    Append(visits[i].root,
                                           visits[i].b.keepfiles[n])) :
                       DestDir(cmds[k])
                         = media_dir \o visits[i].moves[1].newpath

C6_Witness ==
  \E i \in 1..Len(visits) :
     /\ visits[i].unit /\ visits[i].planned /\ ~visits[i].crash
     /\ Len(visits[i].moves) >= 2
     /\ \E n \in 1..Len(visits[i].b.keepfiles) :
           Movers(visits[i], Append(visits[i].root,
                                    visits[i].b.keepfiles[n])) # {}


(***************************************************************************)
(* C7  When the plan of a first run is executed and the planner runs       *)
(* again on the resulting tree with the same template, the second run      *)
(* queues no operation at all.                                             *)
(***************************************************************************)
C7_SecondRunQueuesNothing == run = 2 => cmds = <<>>


(***************************************************************************)
(* C8  Since the last reset of the queue and the history, a command that   *)
(* pop_cmd or flush_cmds handles is skipped as a duplicate if and only if  *)
(* an identical command was actually executed before.                      *)
(***************************************************************************)
ExecutedBefore(i) ==
  \E j \in 1..(i - 1) :
     log[j].cmd = log[i].cmd /\ log[j].what = "executed"

C8_SkippedIffExecutedBefore ==
  \A i \in 1..Len(log) : log[i].what = "skipped" <=> ExecutedBefore(i)

(***************************************************************************)
(* C9  When a command that the program sets out to run exits with a        *)
(* non-zero code, the operation is reported as failed and the commands     *)
(* queued after it are still processed.                                    *)
(***************************************************************************)
SetOutToRun(i) == log[i].what \in {"executed", "failed", "raised"}

C9_FailureIsReportedAndQueueGoesOn ==
  \A i \in 1..Len(log) :
     SetOutToRun(i) /\ ExitCode(log[i].cmd) # 0
       => log[i].what = "failed" /\ pc # "crashed"

(***************************************************************************)
(* C10  The validation rejects a template, before any directory is walked  *)
(* or any command queued, exactly when the template uses a placeholder     *)
(* outside the field vocabulary, has no path separator, starts with '/',   *)
(* lacks $title, has $part before $title, or has neither $filename nor     *)
(* $ext; every other template is accepted.                                 *)
(***************************************************************************)
UnknownPlaceholder(fmt) ==
  \E i \in 1..Len(fmt) :
     IsPlaceholder(fmt[i]) /\ PlaceholderKey[fmt[i]] \notin format_keys

PartBeforeTitle(fmt) ==
  \E i \in 1..Len(fmt) :
     fmt[i] = "$part" /\ \A j \in 1..i : fmt[j] # "$title"

ListedDefect(fmt) ==
  \/ UnknownPlaceholder(fmt)
  \/ ~Contains(fmt, "/")
  \/ (fmt # <<>> /\ fmt[1] = "/")
  \/ ~Contains(fmt, "$title")
  \/ PartBeforeTitle(fmt)
  \/ (~Contains(fmt, "$filename") /\ ~Contains(fmt, "$ext"))

C10_RejectedIffListedDefect ==
  verdict.result # "none" =>
    /\ verdict.result # "ok" <=> ListedDefect(verdict.given)
    /\ verdict.result # "ok" => pc = "exited" /\ cmds = <<>> /\ visits = <<>>

(***************************************************************************)
(* C11  Every subtree of the import directory that holds a media file is   *)
(* given a destination in the media directory by the import pass: a move   *)
(* of the subtree is handled, its destination is no existing entry of the  *)
(* media directory, and no two subtrees get the same destination.          *)
(***************************************************************************)
\* the import subdirectory sd holds a media file in a directory the import
\* pass walks
HoldsMedia(sd) ==
  \E d \in import_walked(sd) :
     \E f \in ChildFiles(d) \ default_noimport :
        in_video_types(splitext(f).ext)

\* the log entries that move the subtree sd
ImportMoves(sd) ==
  {i \in 1..Len(log) :
     log[i].cmd.cmd = "mv" /\ log[i].cmd.paths[1] = sd}

IsBelow(d, root) ==
  Len(d) > Len(root) /\ SubSeq(d, 1, Len(root)) = root

ExcludedPath(d) ==
  \E n \in (Len(media_dir) + 1)..Len(d) : d[n] \in default_exclude

C12_UnitsArePruned ==
  /\ \A i \in 1..Len(visits) : \A j \in 1..Len(visits) :
        visits[i].unit /\ i # j => ~IsBelow(visits[j].root, visits[i].root)
  /\ \A i \in 1..Len(visits) :
        /\ ~ExcludedPath(visits[i].root)
        /\ visits[i].unit <=> Len(visits[i].b.mediafiles) > 0

\* the walk is over, a unit had a subdirectory that is not its disk image,
\* and an excluded directory was in the tree
C12_Witness ==
  /\ pc = "done"
  /\ \E i \in 1..Len(visits) :
        /\ visits[i].unit
        /\ \E d \in fsDirs :
              IsBelow(d, visits[i].root) /\ Last(d) # <<"VIDEO_TS">>
                /\ ChildFiles(d) # {}
  /\ \E d \in fsDirs : ExcludedPath(d)

(***************************************************************************)
(* Directories without media.                                              *)
(***************************************************************************)
\* no file with a media extension in d or below it
NoMediaFile(d) ==
  \A f \in fsFiles :
     IsBelow(f, d) => ~in_video_types(splitext(Last(f)).ext)

\* no disk image folder in d or below it
NoDiskImage(d) ==
  \A e \in fsDirs : IsBelow(e, d) => Last(e) # <<"VIDEO_TS">>

\* the visit v queued nothing, and no command of the queue moves, removes
\* or searches subtitles for an entry in or below the directory of v
Untouched(v) ==
  /\ ~v.unit
  /\ v.last < v.first
  /\ \A k \in 1..Len(cmds) : \A n \in 1..Len(Sources(cmds[k])) :
        ~IsMkdir(k) => ~IsBelow(Resolve(Sources(cmds[k])[n]), v.root)

Visited(d) == \E i \in 1..Len(visits) : visits[i].root = d

Pending(d) ==
  \E n \in 1..Len(todo) : todo[n] = d \/ IsBelow(d, todo[n])

\* every directory below the directory of v that has no excluded name on
\* its path is visited, or is still to come while the walk goes on
SubtreeWalked(v) ==
  \A d \in fsDirs :
     IsBelow(d, v.root) /\ ~ExcludedPath(d) =>
       \/ Visited(d)
       \/ pc # "done" /\ Pending(d)

(***************************************************************************)
(* C13  As claimed: a visited directory with no file of a media extension  *)
(* in its subtree is no unit, no command is queued for it or for anything  *)
(* below it, and every directory below it that is not excluded is visited. *)
(***************************************************************************)
C13_NoMediaFileNoOperation ==
  run = 1 =>
    \A i \in 1..Len(visits) :
       NoMediaFile(visits[i].root) =>
         Untouched(visits[i]) /\ SubtreeWalked(visits[i])

(***************************************************************************)
(* C13  As the code has it: the same, for a visited directory that has in  *)
(* its subtree neither a file of a media extension nor a disk image folder *)
(* VIDEO_TS (the folder makes its parent a unit, whatever it holds).       *)
(***************************************************************************)
C13_NoMediaNoOperation ==
  run = 1 =>
    \A i \in 1..Len(visits) :
       NoMediaFile(visits[i].root) /\ NoDiskImage(visits[i].root) =>
         Untouched(visits[i]) /\ SubtreeWalked(visits[i])

\* the walk is over; a directory without media, with a file of a delete
\* pattern and a meta file in it, was visited and so was a directory below
C13_Witness ==
  /\ pc = "done"
  /\ \E i \in 1..Len(visits) :
        /\ NoMediaFile(visits[i].root) /\ NoDiskImage(visits[i].root)
        /\ visits[i].b.deletefiles # <<>>
        /\ visits[i].b.metafiles # <<>>
        /\ \E j \in 1..Len(visits) :
              IsBelow(visits[j].root, visits[i].root)

(***************************************************************************)
(* C14  When a field that the template refers to has no candidate, the     *)
(* rendered directory and file name hold no '$$', no '$name' and none of   *)
(* the brackets that stand next to the placeholder of that field in the    *)
(* template, wherever the placeholder stands.                              *)
(***************************************************************************)
\* the items of the rendered destination
RenderedItems ==
  UNION {Range(rendered.result.newpath[n]) :
           n \in 1..Len(rendered.result.newpath)}
    \cup Range(rendered.result.newfile)

\* the placeholder at position i of the template has no value
Missing(i) ==
  /\ IsPlaceholder(format[i])
  /\ PlaceholderKey[format[i]] \in format_keys \ {"filename", "filetype"}
  /\ rendered.md[PlaceholderKey[format[i]]] = <<>>

C14_NoLeftoverOfMissingField ==
  pc = "analyzed" /\ ~rendered.result.crash =>
    \A i \in 1..Len(format) :
       Missing(i) =>
         /\ Unfilled[1] \notin RenderedItems
         /\ \A x \in RenderedItems : ~IsPlaceholder(x)
         /\ i > 1 /\ format[i - 1] \in {"(", "[", "{"} =>
              format[i - 1] \notin RenderedItems
         /\ i < Len(format) /\ format[i + 1] \in {")", "]", "}"} =>
              format[i + 1] \notin RenderedItems

(***************************************************************************)
(* C15  With more than one title candidate, the title chosen is the first  *)
(* candidate, in the order the candidates had before the sort, among those *)
(* of the highest score, the score being the number of pairs of an         *)
(* upper-case letter followed by a lower-case letter plus the number of    *)
(* spaces.                                                                 *)
(***************************************************************************)
PairsPlusSpaces(t) == SumCasePairs(t) + Spaces(t)

C15_BestScoreFirstWins ==
  pc = "analyzed" /\ Len(rendered.raw["title"]) > 1 =>
    \E n \in 1..Len(rendered.raw["title"]) :
       /\ rendered.md["title"][1] = rendered.raw["title"][n]
       /\ \A m \in 1..Len(rendered.raw["title"]) :
             /\ PairsPlusSpaces(rendered.raw["title"][m])
                  <= PairsPlusSpaces(rendered.raw["title"][n])
             /\ m < n => PairsPlusSpaces(rendered.raw["title"][m])
                           < PairsPlusSpaces(rendered.raw["title"][n])

(***************************************************************************)
(* C16  For every unit root at or below the media directory the building   *)
(* of the path components ends without error: the components are the name *)
(* of the unit root followed by the names of its ancestors, from the       *)
(* parent upwards, up to but without the first ancestor that is the media  *)
(* directory or has 3 or more subdirectories; and only counts of visited   *)
(* directories are read.                                                   *)
(***************************************************************************)
\* the ancestor of root that is n levels above it
Ancestor(root, n) == SubSeq(root, 1, Len(root) - n)

\* the walk goes past the ancestor n levels above root
Passes(root, n) ==
  /\ Ancestor(root, n) # media_dir
  /\ Ancestor(root, n) \in DOMAIN dircount_cache
  /\ dircount_cache[Ancestor(root, n)] < 3

\* the number of ancestors whose names are added
Climbed(root) ==
  CHOOSE k \in 0..(Len(root) - 1) :
     /\ \A n \in 1..k : Passes(root, n)
     /\ k < Len(root) - 1 => ~Passes(root, k + 1)

C16_ComponentsBuiltNormally ==
  pc = "analyzed" =>
    /\ ~rendered.climb_crash
    /\ Len(rendered.components) = 1 + Climbed(rendered.root)
    /\ \A n \in 1..Len(rendered.components) :
          rendered.components[n]
            = rendered.root[Len(rendered.root) - n + 1]

(***************************************************************************)
(* C17  The components of a media file are processed from the outermost    *)
(* folder to the innermost folder and then the file name, each new match   *)
(* going to the front of its list: for every field but the title the first *)
(* candidate is the value matched in the component closest to the file     *)
(* among the components that matched, and no list holds a value twice.     *)
(***************************************************************************)
NonTitleFields ==
  {"ext", "part", "video_codec", "year", "sound_codec", "rip", "resolution",
   "torrent"}

\* the file name, then the folders from the innermost one outwards
NearestFirst == <<rendered.file>> \o rendered.components

\* what one component alone yields for a field
OwnMatches(comp, key) == ExtractComponent(EmptyMetadata, comp)[key]

Matching(key) ==
  {i \in 1..Len(NearestFirst) : OwnMatches(NearestFirst[i], key) # <<>>}

\* the first candidate of a field comes from the nearest matching component
NearestMatchFirst(key) ==
  \E i \in Matching(key) :
     /\ \A j \in Matching(key) : i <= j
     /\ Head(rendered.raw[key]) = Head(OwnMatches(NearestFirst[i], key))

NoDuplicates(list) ==
  \A i, j \in 1..Len(list) : list[i] = list[j] => i = j

C17_NearestComponentWins ==
  (pc = "analyzed" /\ ~rendered.climb_crash) =>
    /\ \A key \in NonTitleFields :
          Matching(key) # {} =>
            /\ rendered.raw[key] # <<>>
            /\ NearestMatchFirst(key)
    /\ \A key \in format_keys : NoDuplicates(rendered.raw[key])

(***************************************************************************)
(* C18  A media file of a unit whose name stays and whose directory        *)
(* changes is moved by one wildcard move when the unit has exactly one     *)
(* destination directory and as a named file otherwise; either way the     *)
(* move goes to the media directory joined with the directory the          *)
(* template gave for the file.                                             *)
(***************************************************************************)
\* cmds[k] moves "root/*"
IsWildcard(k, root) == Sources(cmds[k]) = <<Append(root, STAR)>>

\* the file f of the destination g of the visit v is moved as the claim has it
MovedInBatch(v, g, f) ==
  /\ Cardinality(Movers(v, Append(v.root, f))) = 1
  /\ \A k \in Movers(v, Append(v.root, f)) :
        /\ IF Len(v.moves) = 1 THEN IsWildcard(k, v.root)
           ELSE Named(k, Append(v.root, f))
        /\ IsDirTarget(cmds[k])
        /\ DestDir(cmds[k]) = media_dir \o g.newpath

C18_BatchedMoveGoesToDestination ==
  \A i \in 1..Len(visits) :
     visits[i].unit /\ visits[i].planned /\ ~visits[i].crash =>
       \A n \in 1..Len(visits[i].moves) :
          ~same_dir(visits[i].root, visits[i].moves[n].newpath) =>
            \A m \in 1..Len(visits[i].moves[n].files) :
               visits[i].moves[n].files[m][1] = visits[i].moves[n].files[m][2]
                 => MovedInBatch(visits[i], visits[i].moves[n],
                                 visits[i].moves[n].files[m][1])

(***************************************************************************)
(* C19  The planning of a unit whose root already holds its metadata       *)
(* folder ends normally whatever else the root holds: the metadata folder  *)
(* is never a source of the batched move into the metadata folder, and     *)
(* when the unit also has other metadata files and a destination that is   *)
(* not its root, the unit is planned to the end without error and the      *)
(* moves of its media files are queued.                                    *)
(***************************************************************************)
\* the metadata folder of the visit v
MetaPath(v) == Append(v.root, meta_dir_name)

\* cmds[k] is "move(root, metafiles, metapath)"
IsMetaMove(v, k) ==
  /\ cmds[k].cmd = "mv"
  /\ Last(cmds[k].paths) = JoinEmpty(MetaPath(v))

\* every media file of the visit v is the source of a move or stays where
\* it is under its own name
MediaMovesQueued(v) ==
  \A n \in 1..Len(v.moves) :
     \A m \in 1..Len(v.moves[n].files) :
        \/ Movers(v, Append(v.root, v.moves[n].files[m][1])) # {}
        \/ /\ same_dir(v.root, v.moves[n].newpath)
           /\ v.moves[n].files[m][1] = v.moves[n].files[m][2]

\* the visit v is a unit that has its metadata folder and looks for no
\* subtitles
HasMetaFolder(v) == v.unit /\ v.has_meta /\ ~argsSubs

C19_MetadataFolderDoesNotStopPlanning ==
  \A i \in 1..Len(visits) :
     HasMetaFolder(visits[i]) =>
       /\ \A k \in Segment(visits[i]) :
             IsMetaMove(visits[i], k)
               => ~Contains(Sources(cmds[k]), MetaPath(visits[i]))
       /\ ~visits[i].crash
       /\ visits[i].planned
       /\ MediaMovesQueued(visits[i])


====
